---- MODULE Spec2Model ----
(***************************************************************************)
(* Model of the Davis Vantage Pro2 driver (pyvantagepro2): the session's   *)
(* retried link operations (device.py) and the archive dump retrieval.     *)
(*                                                                         *)
(* Python values that cross the link keep their type: a value is a record  *)
(* [ty, v] with ty "str", "bytes" or "None" and v the sequence of its      *)
(* code points / byte values, so that == between a str and a bytes value   *)
(* is false as it is in Python 3.                                          *)
(***************************************************************************)
EXTENDS Integers, Sequences, FiniteSets, Bags, TLC

VARIABLES
    pc,        \* position of the caller of the retried operations
    call,      \* the retried operation in progress (name and arguments)
    fails,     \* RetryInfo.fails of the operation in progress
    attempts,  \* attempts begun for the operation in progress
    excs,      \* the exceptions raised by its failed attempts, in order
    ret,       \* what the retry wrapper hands back: pending, a value, a raise
    slept,     \* total delay the retry wrapper asked for
    written,   \* bag of the byte strings written to the link
    reads,     \* bag of the sizes asked of link.read_async
    ncalls,    \* operations started on the session
    outcome,   \* what the caller of the last operation received
    caller_start, \* get_archives: the start_date argument
    start_date,   \* _get_archives_generator: start_date after rounding
    stop_date,    \* _get_archives_generator: stop_date
    header,       \* the dump header read from the link
    page_i,       \* the page loop's _i
    slot_j,       \* index of the next 52-byte slot of the page
    finish,       \* _get_archives_generator: finish
    not_in_range, \* _get_archives_generator: not_in_range ("unbound" until assigned)
    r_index,      \* _get_archives_generator: r_index
    item,         \* the record the generator is suspended on (yield)
    archives,     \* get_archives: archives
    dates,        \* get_archives: dates
    result,       \* what get_archives returns
    seen,         \* history of the walk, for the properties only
    heard,        \* the bytes the operation in progress last read as its answer
    RevA,         \* VantagePro2.RevA
    RevB,         \* VantagePro2.RevB
    fcall,        \* an application of a parser function: name, argument, result
    archive_period, \* the cache of the async_cached_property archive_period
    op,           \* the public operation in progress on the session
    tasks,        \* two operations started concurrently: positions and link events
    properties    \* the caches of timezone, firmware_version and diagnostics

retryVars == <<call, fails, attempts, excs, ret, slept>>

linkVars == <<written, reads>>

dumpVars == <<caller_start, start_date, stop_date, header, page_i, slot_j, finish,
              not_in_range, r_index, item, archives, dates, result, seen>>

sessVars == <<RevA, RevB>>

vars == <<pc, call, fails, attempts, excs, ret, slept, written, reads, ncalls, outcome,
          caller_start, start_date, stop_date, header, page_i, slot_j, finish,
          not_in_range, r_index, item, archives, dates, result, seen, heard, RevA, RevB,
          fcall, archive_period, op, tasks, properties>>

opVars == <<archive_period, op, tasks, properties>>

----------------------------------------------------------------------------
\* Bounds of the model.

\* operations a caller starts on one session
MaxCalls == 2

----------------------------------------------------------------------------
\* Python values.

Str(s) == [ty |-> "str", v |-> s]

Bytes(s) == [ty |-> "bytes", v |-> s]

PyNone == [ty |-> "None", v |-> <<>>]

\* str.encode() / bytes.decode() on ASCII text
encode(s) == Bytes(s.v)

decode(b) == Str(b.v)

\* bytes.decode() is UTF-8, strict: a byte of 0x80 or above that begins no
\* valid sequence raises UnicodeDecodeError (the model's only such byte is 0xFF)
decodable(b) == \A k \in 1..Len(b.v) : b.v[k] < 128

\* utils.is_bytes
is_bytes(data) == data.ty = "bytes"

\* Python's == on str / bytes / None values: values of different types differ
PyEq(a, b) == a.ty = b.ty /\ a.v = b.v

\* len()
PyLen(a) == Len(a.v)

----------------------------------------------------------------------------
\* Wire constants of VantagePro2.

OK == Str(<<10, 13, 79, 75, 10, 13>>)

VER == Str(<<86, 69, 82>>)

WAKE_STR == Str(<<10>>)

WAKE_ACK == Str(<<10, 13>>)

ACK == Str(<<6>>)

NACK == Str(<<33>>)

CANCEL == Str(<<24>>)

ESC == Str(<<27>>)

\* the text "DMPAFT"
DMPAFT == Str(<<68, 77, 80, 65, 70, 84>>)

\* the text "EEBRD "
EEBRD == <<69, 69, 66, 82, 68, 32>>

\* f" {size:02d}"
SizeText(size) == <<32, 48 + (size \div 10), 48 + (size % 10)>>

\* f"{data}\n"
WithLF(s) == Str(s.v \o <<10>>)

----------------------------------------------------------------------------
\* VantageProCRC (parser.py): CRC16-CCITT over a bytes object, kept as the
\* sequence of its byte values.

\* a ^ b on naturals
RECURSIVE Xor(_, _)
Xor(a, b) ==
    IF a = 0 THEN b
    ELSE IF b = 0 THEN a
    ELSE ((a + b) % 2) + 2 * Xor(a \div 2, b \div 2)

CRC_TABLE ==
    << 0, 4129, 8258, 12387, 16516, 20645, 24774, 28903,
       33032, 37161, 41290, 45419, 49548, 53677, 57806, 61935,
       4657, 528, 12915, 8786, 21173, 17044, 29431, 25302,
       37689, 33560, 45947, 41818, 54205, 50076, 62463, 58334,
       9314, 13379, 1056, 5121, 25830, 29895, 17572, 21637,
       42346, 46411, 34088, 38153, 58862, 62927, 50604, 54669,
       13907, 9842, 5649, 1584, 30423, 26358, 22165, 18100,
       46939, 42874, 38681, 34616, 63455, 59390, 55197, 51132,
       18628, 22757, 26758, 30887, 2112, 6241, 10242, 14371,
       51660, 55789, 59790, 63919, 35144, 39273, 43274, 47403,
       23285, 19156, 31415, 27286, 6769, 2640, 14899, 10770,
       56317, 52188, 64447, 60318, 39801, 35672, 47931, 43802,
       27814, 31879, 19684, 23749, 11298, 15363, 3168, 7233,
       60846, 64911, 52716, 56781, 44330, 48395, 36200, 40265,
       32407, 28342, 24277, 20212, 15891, 11826, 7761, 3696,
       65439, 61374, 57309, 53244, 48923, 44858, 40793, 36728,
       37256, 33193, 45514, 41451, 53516, 49453, 61774, 57711,
       4224, 161, 12482, 8419, 20484, 16421, 28742, 24679,
       33721, 37784, 41979, 46042, 49981, 54044, 58239, 62302,
       689, 4752, 8947, 13010, 16949, 21012, 25207, 29270,
       46570, 42443, 38312, 34185, 62830, 58703, 54572, 50445,
       13538, 9411, 5280, 1153, 29798, 25671, 21540, 17413,
       42971, 47098, 34713, 38840, 59231, 63358, 50973, 55100,
       9939, 14066, 1681, 5808, 26199, 30326, 17941, 22068,
       55628, 51565, 63758, 59695, 39368, 35305, 47498, 43435,
       22596, 18533, 30726, 26663, 6336, 2273, 14466, 10403,
       52093, 56156, 60223, 64286, 35833, 39896, 43963, 48026,
       19061, 23124, 27191, 31254, 2801, 6864, 10931, 14994,
       64814, 60687, 56684, 52557, 48554, 44427, 40424, 36297,
       31782, 27655, 23652, 19525, 15522, 11395, 7392, 3265,
       61215, 65342, 53085, 57212, 44955, 49082, 36825, 40952,
       28183, 32310, 20053, 24180, 11923, 16050, 3793, 7920 >>

\* crc = CRC_TABLE[(crc >> 8) ^ byte] ^ ((crc & 0xFF) << 8)
crc_step(crc, byte) == Xor(CRC_TABLE[Xor(crc \div 256, byte) + 1], (crc % 256) * 256)

\* for byte in data: crc = crc_step(crc, byte); the fold over data is taken
\* as the fold over its first half followed by the fold over the rest
RECURSIVE crc_loop(_, _)
crc_loop(crc, data) ==
    IF data = <<>> THEN crc
    ELSE IF Len(data) = 1 THEN crc_step(crc, data[1])
    ELSE LET h == Len(data) \div 2
             first == crc_loop(crc, SubSeq(data, 1, h))
         IN  IF first >= 0 THEN crc_loop(first, SubSeq(data, h + 1, Len(data))) ELSE first

\* VantageProCRC.checksum
checksum(data) == crc_loop(0, data)

data_with_checksum_le(data) == data \o <<checksum(data) % 256, checksum(data) \div 256>>

\* VantageProCRC.data_with_checksum: data + struct.pack(">H", checksum)
data_with_checksum(data) == data \o <<checksum(data) \div 256, checksum(data) % 256>>

----------------------------------------------------------------------------
\* Date and time of the archive dump (parser.py).

\* the value None where a datetime is expected
NoneDt == [year |-> 0, month |-> 0, day |-> 0, hour |-> 0, minute |-> 0]

\* datetime comparison: chronological order
DtKey(d) == (((d.year * 13 + d.month) * 32 + d.day) * 24 + d.hour) * 60 + d.minute

DtLE(a, b) == DtKey(a) <= DtKey(b)

DtLT(a, b) == DtKey(a) < DtKey(b)

\* what stands for the ValueError the datetime constructor raises
ValueErrorDt == [year |-> -1, month |-> 0, day |-> 0, hour |-> 0, minute |-> 0]

is_leap(year) == year % 4 = 0 /\ (year % 100 # 0 \/ year % 400 = 0)

days_in_month(year, month) ==
    IF month = 2 THEN (IF is_leap(year) THEN 29 ELSE 28)
    ELSE IF month \in {4, 6, 9, 11} THEN 30
    ELSE 31

\* datetime(year, month, day, hour, minute)
datetime(year, month, day, hour, minute) ==
    IF /\ year \in 1..9999
       /\ month \in 1..12
       /\ day \in 1..days_in_month(year, month)
       /\ hour \in 0..23
       /\ minute \in 0..59
    THEN [year |-> year, month |-> month, day |-> day, hour |-> hour, minute |-> minute]
    ELSE ValueErrorDt

unpack_unless_both(date, time) ==
    IF date # 65535 \/ time # 65535
    THEN datetime(((date \div 512) % 128) + 2000, (date \div 32) % 16, date % 32,
                  time \div 100, time % 100)
    ELSE NoneDt

\* parser.unpack_dmp_date_time
unpack_dmp_date_time(date, time) ==
    IF date # 65535 /\ time # 65535
    THEN datetime(((date \div 512) % 128) + 2000, (date \div 32) % 16, date % 32,
                  time \div 100, time % 100)
    ELSE NoneDt

pack_dmp_since_1900(d) ==
    LET vpdate == d.day + d.month * 32 + (d.year - 1900) * 512
        vptime == 100 * d.hour + d.minute
    IN  Bytes(data_with_checksum(<<vpdate % 256, vpdate \div 256, vptime % 256, vptime \div 256>>))

\* struct "H": an unsigned 16-bit word from its two bytes, low byte first
unpack_H(lo, hi) == lo + 256 * hi

\* parser.pack_dmp_date_time: struct.pack("HH", vpdate, vptime), little-endian
\* words, followed by their CRC
pack_dmp_date_time(d) ==
    LET vpdate == d.day + d.month * 32 + (d.year - 2000) * 512
        vptime == 100 * d.hour + d.minute
    IN  Bytes(data_with_checksum(<<vpdate % 256, vpdate \div 256, vptime % 256, vptime \div 256>>))

\* ArchiveDataParserRevB: the decoded record of one slot; Raw stands for
\* the slot's measurement fields
ArchiveDataParserRevB(stamp, raw) ==
    [Datetime |-> unpack_dmp_date_time(stamp[1], stamp[2]), Raw |-> raw]

\* start_date - timedelta(minutes=start_date.minute % period)
round_start(d, period) == [d EXCEPT !.minute = d.minute - (d.minute % period)]

----------------------------------------------------------------------------
\* Bounds of the dump model.

\* page counts a dump header declares: 0..MaxPages
MaxPages == 2

\* minutes 06:00 .. 06:MaxMinute of 2008-05-01 carry the datetimes
MaxMinute == 3

\* archive periods the console reports (EEPROM byte 0x2D)
Periods == {1, 2}

\* values of a slot's measurement fields
RawValues == {0, 1}

\* 52-byte slots of a dump page: zip(range(0, 260, 52), range(52, 261, 52))
SlotsPerPage == 5

\* bytes of the dump header
HeaderLen == 6

Minute(m) == [year |-> 2008, month |-> 5, day |-> 1, hour |-> 6, minute |-> m]

Times == {Minute(m) : m \in 0..MaxMinute}

\* the stop_date of the caller
StopDates == {Minute(2)}

\* DateStamp / TimeStamp words the console delivers in a slot: an erased
\* slot (both 0xFFFF), a slot with an erased date only, and dated records
SlotStamps ==
    {<<65535, 65535>>, <<65535, 600>>}
        \cup {<<1 + 5 * 32 + 8 * 512, 600 + m>> : m \in 0..MaxMinute}

Headers ==
    {[len |-> HeaderLen, crc0 |-> z, Pages |-> n] : z \in BOOLEAN, n \in 0..MaxPages}
        \cup {[len |-> l, crc0 |-> TRUE, Pages |-> 0] : l \in {0, HeaderLen - 1}}

NoHeader == [len |-> 0, crc0 |-> FALSE, Pages |-> 0]

NoItem == [Datetime |-> NoneDt, Raw |-> 0]

NoResult == [kind |-> "none", val |-> <<>>]

NoTerminal == [kind |-> "none", page |-> 0, slot |-> 0, emitted |-> 0]

Seen0 ==
    [ack |-> PyNone, examined |-> 0, inrange |-> 0, emitted |-> 0, last |-> NoneDt,
     term |-> NoTerminal, pages_ok |-> 0, first |-> {}, pos |-> 0, nir_at |-> 0]

DumpLocals0 ==
    /\ header = NoHeader
    /\ page_i = 0
    /\ slot_j = 0
    /\ finish = FALSE
    /\ not_in_range = "unbound"
    /\ r_index = 0
    /\ item = NoItem
    /\ archives = <<>>
    /\ dates = <<>>
    /\ result = NoResult
    /\ seen = Seen0

----------------------------------------------------------------------------
\* The link (external): what a read may return.  A read of n bytes returns
\* at most n bytes; fewer on a timeout.

\* answers to the 2-byte read of wake_up
WakeReplies ==
    {Bytes(<<10, 13>>), Bytes(<<13, 10>>), Bytes(<<10>>), Bytes(<<>>), Bytes(<<255, 10>>)}

\* answers to a 1-byte acknowledgement read
AckReplies == {Bytes(<<6>>), Bytes(<<33>>), Bytes(<<>>), Bytes(<<255>>)}

\* answers to the read of the acknowledgement wait_ack
RepliesTo(wait_ack) ==
    IF PyLen(wait_ack) = 1 THEN AckReplies ELSE {Bytes(wait_ack.v), Bytes(<<>>)}

\* A frame that ends in a CRC is kept as its length and whether the CRC16
\* over the whole frame is 0; the CRC16 of the empty frame is 0.
Frames(n) == {[len |-> l, crc0 |-> z] : l \in {0, n - 1, n}, z \in BOOLEAN} \ {[len |-> 0, crc0 |-> FALSE]}

\* VantageProCRC.check
check(data) == data.len # 0 /\ data.crc0

\* the frame made of the bytes data
Frame(data) == [len |-> Len(data), crc0 |-> checksum(data) = 0]

crc_error_never(data) == FALSE

\* DataParser.__init__: crc_error of a frame with a CRC field
crc_error(data) == ~check(data)

LinkWrite(w, x) == w (+) SetToBag({x})

LinkRead(r, n) == r (+) SetToBag({n})

----------------------------------------------------------------------------
\* The retry wrapper.

Pending == [kind |-> "pending", val |-> "none", n |-> 0]

Value(v, k) == [kind |-> "value", val |-> v, n |-> k]

Raise(e) == [kind |-> "raise", val |-> e, n |-> 0]

\* seconds between two attempts
RetryDelay == 1

retry_policy_3(f) == f > 2

retry_policy_1(f) == f > 0

\* retry_policy: abandon once info.fails exceeds 3
retry_policy(f) == f > 3

\* aioretry: an attempt raised e
Failed(e) ==
    /\ fails' = fails + 1
    /\ excs' = Append(excs, e)
    /\ IF retry_policy(fails + 1)
       THEN ret' = Raise(e) /\ slept' = slept
       ELSE ret' = Pending /\ slept' = slept + RetryDelay

\* aioretry: an attempt returned v
Returned(v, k) ==
    /\ ret' = Value(v, k)
    /\ UNCHANGED <<fails, excs, slept>>

NoCall == [name |-> "none", data |-> PyNone, wait_ack |-> PyNone, size |-> 0]

Running(name) == call.name = name /\ ret = Pending

\* VantagePro2.wake_up, one attempt
wake_up ==
    /\ Running("wake_up")
    /\ attempts' = attempts + 1
    /\ written' = LinkWrite(written, encode(WAKE_STR))
    /\ \E ack \in WakeReplies :
          /\ heard' = ack
          /\ IF ~decodable(ack)
             THEN /\ reads' = LinkRead(reads, PyLen(WAKE_ACK))
                  /\ Failed("UnicodeDecodeError")
             ELSE IF PyEq(WAKE_ACK, decode(ack))
                  THEN /\ reads' = LinkRead(reads, PyLen(WAKE_ACK))
                       /\ Returned("True", 0)
                  ELSE /\ reads' = LinkRead(LinkRead(reads, PyLen(WAKE_ACK)), 1)
                       /\ Failed("NoDevice")
    /\ UNCHANGED <<pc, call, ncalls, outcome, dumpVars, sessVars, fcall, opVars>>

\* VantagePro2.send, one attempt
send ==
    /\ Running("send")
    /\ attempts' = attempts + 1
    /\ written' = LinkWrite(written, IF is_bytes(call.data) THEN call.data ELSE encode(WithLF(call.data)))
    /\ IF PyEq(call.wait_ack, PyNone)
       THEN /\ reads' = reads
            /\ heard' = heard
            /\ Returned("True", 0)
       ELSE /\ reads' = LinkRead(reads, PyLen(call.wait_ack))
            /\ \E ack \in RepliesTo(call.wait_ack) :
                  /\ heard' = ack
                  /\ IF PyEq(call.wait_ack, ack)
                     THEN Returned("True", 0)
                     ELSE Failed("BadAck")
    /\ UNCHANGED <<pc, call, ncalls, outcome, dumpVars, sessVars, fcall, opVars>>

\* VantagePro2.read_from_eeprom, one attempt
read_from_eeprom ==
    /\ Running("read_from_eeprom")
    /\ attempts' = attempts + 1
    /\ written' = LinkWrite(written, encode(WithLF(Str(EEBRD \o call.data.v \o SizeText(call.size)))))
    /\ \E ack \in AckReplies :
          /\ heard' = ack
          /\ IF ~decodable(ack)
             THEN /\ reads' = LinkRead(reads, PyLen(ACK))
                  /\ Failed("UnicodeDecodeError")
             ELSE IF PyEq(decode(ack), ACK)
                  THEN /\ reads' = LinkRead(LinkRead(reads, PyLen(ACK)), call.size + 2)
                       /\ \E data \in Frames(call.size + 2) :
                             IF check(data)
                             THEN Returned("data", IF data.len > 2 THEN data.len - 2 ELSE 0)
                             ELSE Failed("BadCRC")
                  ELSE /\ reads' = LinkRead(reads, PyLen(ACK))
                       /\ Failed("BadAck")
    /\ UNCHANGED <<pc, call, ncalls, outcome, dumpVars, sessVars, fcall, opVars>>

\* bytes of a dump page
PageLen == 267

nack_none(w) == w

\* await self.link.write_async(self.NACK.encode())
nack(w) == LinkWrite(w, encode(NACK))

\* VantagePro2._read_dump_page, one attempt
read_dump_page ==
    /\ Running("_read_dump_page")
    /\ attempts' = attempts + 1
    /\ reads' = LinkRead(reads, PageLen)
    /\ \E raw_dump \in Frames(PageLen) :
          IF raw_dump.len # PageLen
          THEN /\ written' = nack(written)
               /\ Failed("BadData")
          ELSE IF crc_error(raw_dump)
               THEN /\ written' = nack(written)
                    /\ Failed("BadCRC")
               ELSE /\ written' = written
                    /\ Returned("dump", raw_dump.len)
    /\ UNCHANGED <<pc, call, ncalls, outcome, dumpVars, heard, sessVars, fcall, opVars>>

----------------------------------------------------------------------------
\* A caller that starts the retried operations one after the other.

\* the EEPROM reads of the session: archive_period ("2D", 1), timezone ("14", 3)
EepromCalls ==
    { [name |-> "read_from_eeprom", data |-> Str(<<50, 68>>), wait_ack |-> PyNone, size |-> 1],
      [name |-> "read_from_eeprom", data |-> Str(<<49, 52>>), wait_ack |-> PyNone, size |-> 3] }

\* send(data, wait_ack): an ASCII command or packed bytes; no acknowledgement,
\* the ACK constant, or its bytes
SendCalls ==
    { [name |-> "send", data |-> d, wait_ack |-> a, size |-> 0] :
        d \in {DMPAFT, Bytes(<<0, 0>>)}, a \in {PyNone, ACK, encode(ACK)} }

Calls ==
    {[NoCall EXCEPT !.name = "wake_up"], [NoCall EXCEPT !.name = "_read_dump_page"]}
        \cup SendCalls \cup EepromCalls

CallOp ==
    /\ pc = "idle"
    /\ ncalls < MaxCalls
    /\ \E c \in Calls : call' = c
    /\ fails' = 0
    /\ attempts' = 0
    /\ excs' = <<>>
    /\ ret' = Pending
    /\ outcome' = Pending
    /\ heard' = PyNone
    /\ ncalls' = ncalls + 1
    /\ pc' = "await"
    /\ UNCHANGED <<slept, written, reads, dumpVars, sessVars, fcall, opVars>>

ReturnOp ==
    /\ pc = "await"
    /\ ret # Pending
    /\ outcome' = ret
    /\ pc' = "idle"
    /\ UNCHANGED <<call, fails, attempts, excs, ret, slept, written, reads, ncalls, dumpVars,
                   heard, sessVars, fcall, opVars>>

\* firmware dates the console reports to VER; NoneDt is an answer strptime rejects
FirmwareDates ==
    {[NoneDt EXCEPT !.year = 2002, !.month = 4, !.day = d] : d \in {23, 24}} \cup {NoneDt}

\* _check_revision lines 334-336, up to the first suspension: firmware_date
\* awaits wake_up
check_revision ==
    /\ pc = "idle"
    /\ ncalls < MaxCalls
    /\ RevA' = TRUE
    /\ RevB' = TRUE
    /\ call' = [NoCall EXCEPT !.name = "wake_up"]
    /\ fails' = 0
    /\ attempts' = 0
    /\ excs' = <<>>
    /\ ret' = Pending
    /\ outcome' = Pending
    /\ heard' = PyNone
    /\ ncalls' = ncalls + 1
    /\ pc' = "firmware_date"
    /\ UNCHANGED <<slept, written, reads, dumpVars, fcall, opVars>>

\* firmware_date lines 285-286: wake_up is over, send("VER", self.OK) begins
firmware_date ==
    /\ pc = "firmware_date"
    /\ ret # Pending
    /\ IF ret.kind = "raise"
       THEN /\ outcome' = ret
            /\ pc' = "idle"
            /\ UNCHANGED <<call, fails, attempts, excs, ret, heard>>
       ELSE /\ call' = [name |-> "send", data |-> VER, wait_ack |-> OK, size |-> 0]
            /\ fails' = 0
            /\ attempts' = 0
            /\ excs' = <<>>
            /\ ret' = Pending
            /\ heard' = PyNone
            /\ outcome' = outcome
            /\ pc' = "ver"
    /\ UNCHANGED <<slept, written, reads, ncalls, dumpVars, sessVars, fcall, opVars>>

\* firmware_date lines 286-288 and _check_revision lines 336-339: send is
\* over; the date is read, parsed and compared with 2002-04-24
check_revision_end ==
    /\ pc = "ver"
    /\ ret # Pending
    /\ IF ret.kind = "raise"
       THEN /\ outcome' = ret
            /\ UNCHANGED <<reads, sessVars>>
       ELSE /\ reads' = LinkRead(reads, 13)
            /\ \E d \in FirmwareDates :
                  IF d = NoneDt
                  THEN /\ outcome' = Raise("ValueError")
                       /\ UNCHANGED sessVars
                  ELSE /\ outcome' = Value("None", 0)
                       /\ IF d.day < 24
                          THEN RevB' = FALSE /\ RevA' = RevA
                          ELSE RevA' = FALSE /\ RevB' = RevB
    /\ pc' = "idle"
    /\ UNCHANGED <<call, fails, attempts, excs, ret, slept, written, ncalls, dumpVars, heard, fcall, opVars>>

\* no parser function is being applied
NoApply == [fn |-> "none", arg |-> <<>>, done |-> FALSE, out |-> <<>>]

\* VantagePro2.__init__
Session0 ==
    /\ RevA = FALSE
    /\ RevB = TRUE

\* an async_cached_property that was not loaded
NoCache == [set |-> FALSE, val |-> 0, loads |-> 0]

\* no public operation is in progress
NoOp == [name |-> "none", woken |-> FALSE, short |-> FALSE, period |-> 0]

\* no concurrent operations
NoTasks == [pc |-> <<>>, fails |-> <<>>, log |-> <<>>]

Ops0 ==
    /\ archive_period = NoCache
    /\ op = NoOp
    /\ tasks = NoTasks
    /\ properties = [timezone |-> NoCache, firmware_version |-> NoCache, diagnostics |-> NoCache]

Init ==
    /\ pc = "idle"
    /\ call = NoCall
    /\ fails = 0
    /\ attempts = 0
    /\ excs = <<>>
    /\ ret = Pending
    /\ slept = 0
    /\ written = EmptyBag
    /\ reads = EmptyBag
    /\ ncalls = 0
    /\ outcome = Pending
    /\ caller_start = NoneDt
    /\ start_date = NoneDt
    /\ stop_date = NoneDt
    /\ DumpLocals0
    /\ heard = PyNone
    /\ Session0
    /\ Ops0
    /\ fcall = NoApply

Next ==
    \/ CallOp
    \/ wake_up
    \/ send
    \/ read_from_eeprom
    \/ read_dump_page
    \/ ReturnOp
    \/ check_revision
    \/ firmware_date
    \/ check_revision_end

Spec == Init /\ [][Next]_vars

----------------------------------------------------------------------------
\* get_archives and _get_archives_generator, from the write of the start
\* date-time on.  The dump is entered at the date-time write (line 205, the
\* console having acknowledged DMPAFT) or at the header read (line 211, the
\* console having acknowledged the date-time): the code that follows each
\* acknowledgement is checked for every answer of the console.

DumpEntries == {"date", "header"}

is_none_never(r_time) == FALSE

\* line 241: r_time is None
is_none(r_time) == r_time = NoneDt

le_stop_always(r_time, stop) == TRUE

\* line 244: r_time <= stop_date
le_stop(r_time, stop) == DtLE(r_time, stop)

after_start_or_at(start, r_time) == DtLE(start, r_time)

\* line 245: start_date < r_time
after_start(start, r_time) == DtLT(start, r_time)

caught_crc_only(e) == e = "BadCRC"

\* line 224: except (BadCRCException, BadDataException)
caught(e) == e \in {"BadCRC", "BadData"}

post_page_finish_only(fin, nir) == IF fin THEN "ESC" ELSE "ACK"

\* lines 255-263: the control byte after a page
post_page(fin, nir) ==
    IF fin THEN "ESC"
    ELSE IF nir = "unbound" THEN "UnboundLocalError"
    ELSE IF nir = "True" THEN "ESC"
    ELSE "ACK"

after_control_no_break(d) == "page"

\* lines 255-263: break after ESC, next turn of the page loop after ACK
after_control(d) == IF d = "ESC" THEN "end" ELSE "page"

assigned_if_stale(nir, in_range) == IF in_range THEN nir ELSE "True"

\* lines 245-250: not_in_range = False before the yield, True in the else
assigned(nir, in_range) == IF in_range THEN "False" ELSE "True"

on_close_esc(w) == LinkWrite(w, encode(ESC))

\* the generator is closed while suspended at the yield of line 248:
\* GeneratorExit is raised there, and no except or finally clause of the
\* generator writes to the link
on_close(w) == w

\* sorted(self, key=lambda k: k["Datetime"]): stable insertion
RECURSIVE Insert(_, _)
Insert(r, s) ==
    IF s = <<>> THEN <<r>>
    ELSE IF DtLT(r.Datetime, Head(s).Datetime) THEN <<r>> \o s
    ELSE <<Head(s)>> \o Insert(r, Tail(s))

RECURSIVE sorted_by(_)
sorted_by(s) == IF s = <<>> THEN <<>> ELSE Insert(s[Len(s)], sorted_by(SubSeq(s, 1, Len(s) - 1)))

InSeq(x, s) == \E k \in 1..Len(s) : s[k] = x

InitDump ==
    /\ pc \in DumpEntries
    /\ call = NoCall
    /\ fails = 0
    /\ attempts = 0
    /\ excs = <<>>
    /\ ret = Pending
    /\ slept = 0
    /\ written = EmptyBag
    /\ reads = EmptyBag
    /\ ncalls = 0
    /\ outcome = Pending
    /\ caller_start \in Times
    /\ stop_date \in StopDates
    /\ \E period \in Periods : start_date = round_start(caller_start, period)
    /\ DumpLocals0
    /\ heard = PyNone
    /\ Session0
    /\ Ops0
    /\ fcall = NoApply

\* lines 205-209: write the packed start, read the acknowledgement
SendStart ==
    /\ pc = "date"
    /\ written' = LinkWrite(written, pack_dmp_date_time(start_date))
    /\ reads' = LinkRead(reads, PyLen(ACK))
    /\ \E ack \in AckReplies :
          /\ seen' = [seen EXCEPT !.ack = ack]
          /\ IF ~PyEq(ack, ACK)
             THEN outcome' = Raise("BadAck") /\ pc' = "done"
             ELSE outcome' = outcome /\ pc' = "header"
    /\ UNCHANGED <<heard, sessVars, fcall, opVars, retryVars, ncalls, caller_start, start_date, stop_date, header, page_i,
                   slot_j, finish, not_in_range, r_index, item, archives, dates, result>>

\* lines 211-219: read the dump header, answer CANCEL or ACK
ReadHeader ==
    /\ pc = "header"
    /\ reads' = LinkRead(reads, HeaderLen)
    /\ \E h \in Headers :
          /\ header' = h
          /\ IF h.len < HeaderLen
             THEN /\ written' = written
                  /\ outcome' = Raise("struct.error")
                  /\ pc' = "done"
             ELSE IF crc_error(h)
                  THEN /\ written' = LinkWrite(written, encode(CANCEL))
                       /\ outcome' = Raise("BadCRC")
                       /\ pc' = "done"
                  ELSE /\ written' = LinkWrite(written, encode(ACK))
                       /\ outcome' = outcome
                       /\ pc' = "page"
    /\ finish' = FALSE
    /\ r_index' = 0
    /\ page_i' = 0
    /\ UNCHANGED <<heard, sessVars, fcall, opVars, retryVars, ncalls, caller_start, start_date, stop_date, slot_j,
                   not_in_range, item, archives, dates, result, seen>>

more_pages_and_one(i, pages) == i <= pages

\* line 222: for _i in range(header["Pages"])
more_pages(i, pages) == i < pages

\* lines 220-223: next turn of the page loop, call of _read_dump_page
LoopPage ==
    /\ pc = "page"
    /\ IF more_pages(page_i, header.Pages)
       THEN /\ call' = [NoCall EXCEPT !.name = "_read_dump_page"]
            /\ fails' = 0
            /\ attempts' = 0
            /\ excs' = <<>>
            /\ ret' = Pending
            /\ pc' = "reading"
       ELSE /\ UNCHANGED <<call, fails, attempts, excs, ret>>
            /\ pc' = "end"
    /\ UNCHANGED <<heard, sessVars, fcall, opVars, slept, linkVars, ncalls, outcome, dumpVars>>

\* lines 223-231: the page read returned or gave up; a returned call
\* leaves nothing of the retry wrapper behind
PageRead ==
    /\ pc = "reading"
    /\ ret # Pending
    /\ IF ret.kind = "raise"
       THEN IF caught(ret.val)
            THEN /\ finish' = TRUE
                 /\ pc' = "end"
                 /\ UNCHANGED <<outcome, seen, call, fails, attempts, excs, ret>>
            ELSE /\ finish' = finish
                 /\ outcome' = ret
                 /\ pc' = "done"
                 /\ UNCHANGED <<seen, call, fails, attempts, excs, ret>>
       ELSE /\ finish' = finish
            /\ pc' = "slot"
            /\ outcome' = outcome
            /\ seen' = [seen EXCEPT !.pages_ok = @ + 1]
            /\ call' = NoCall
            /\ fails' = 0
            /\ attempts' = 0
            /\ excs' = <<>>
            /\ ret' = Pending
    /\ slot_j' = 0
    /\ UNCHANGED <<heard, sessVars, fcall, opVars, slept, linkVars, ncalls, caller_start, start_date, stop_date, header,
                   page_i, not_in_range, r_index, item, archives, dates, result>>

AfterSlot(j) == IF j + 1 < SlotsPerPage THEN "slot" ELSE "post"

InRange(t) == t # NoneDt /\ DtKey(start_date) < DtKey(t) /\ DtKey(t) <= DtKey(stop_date)

Terminal(t) == t = NoneDt \/ DtKey(t) > DtKey(stop_date)

\* what the walk has met, once the slot with r_time is examined
Examine(r_time) ==
    [seen EXCEPT !.examined = @ + 1,
                 !.inrange = IF InRange(r_time) THEN @ + 1 ELSE @,
                 !.last = r_time,
                 !.term = IF Terminal(r_time)
                          THEN [kind |-> IF r_time = NoneDt THEN "sentinel" ELSE "past_stop",
                                page |-> page_i, slot |-> slot_j, emitted |-> seen.emitted]
                          ELSE @]

\* place of slot j of page i in the order of delivery, from 1
DeliveryIndex(i, j) == i * SlotsPerPage + j + 1

Emit(s, record) ==
    [s EXCEPT !.emitted = @ + 1,
              !.pos = DeliveryIndex(page_i, slot_j),
              !.first = IF \E f \in @ : f.Datetime = record.Datetime THEN @ ELSE @ \cup {record}]

\* the slot at which not_in_range was last assigned, for the properties only
Assigned(s) == [s EXCEPT !.nir_at = DeliveryIndex(page_i, slot_j)]

\* lines 232-254: one slot of the page
Slot ==
    /\ pc = "slot"
    /\ \E stamp \in SlotStamps, raw \in RawValues :
          LET record == ArchiveDataParserRevB(stamp, raw)
              r_time == record.Datetime
          IN  IF r_time = ValueErrorDt
              THEN /\ outcome' = Raise("ValueError")
                   /\ pc' = "done"
                   /\ UNCHANGED <<finish, not_in_range, item, r_index, slot_j, seen>>
              ELSE IF is_none(r_time)
              THEN /\ finish' = TRUE
                   /\ pc' = "post"
                   /\ seen' = Examine(r_time)
                   /\ UNCHANGED <<not_in_range, item, r_index, slot_j, outcome>>
              ELSE IF le_stop(r_time, stop_date)
                   THEN IF after_start(start_date, r_time)
                        THEN /\ not_in_range' = assigned(not_in_range, TRUE)
                             /\ item' = record
                             /\ pc' = "yielded"
                             /\ seen' = Assigned(Emit(Examine(r_time), record))
                             /\ UNCHANGED <<finish, r_index, slot_j, outcome>>
                        ELSE /\ not_in_range' = assigned(not_in_range, FALSE)
                             /\ r_index' = r_index + 1
                             /\ slot_j' = slot_j + 1
                             /\ pc' = AfterSlot(slot_j)
                             /\ seen' = Assigned(Examine(r_time))
                             /\ UNCHANGED <<finish, item, outcome>>
                   ELSE /\ finish' = TRUE
                        /\ pc' = "post"
                        /\ seen' = Examine(r_time)
                        /\ UNCHANGED <<not_in_range, item, r_index, slot_j, outcome>>
    /\ UNCHANGED <<heard, sessVars, fcall, opVars, retryVars, linkVars, ncalls, caller_start, start_date,
                   stop_date, header, page_i, archives, dates, result>>

\* get_archives lines 186-189 take the yielded item; the generator resumes
\* at line 254
Consume ==
    /\ pc = "yielded"
    /\ IF ~InSeq(item.Datetime, dates)
       THEN /\ archives' = Append(archives, item)
            /\ dates' = Append(dates, item.Datetime)
       ELSE UNCHANGED <<archives, dates>>
    /\ item' = NoItem
    /\ r_index' = r_index + 1
    /\ slot_j' = slot_j + 1
    /\ pc' = AfterSlot(slot_j)
    /\ UNCHANGED <<heard, sessVars, fcall, opVars, retryVars, linkVars, ncalls, outcome, caller_start, start_date, stop_date,
                   header, page_i, finish, not_in_range, result, seen>>

\* the consumer of the generator stops iterating while the generator is
\* suspended at the yield of line 248, and the generator is closed
Abandon ==
    /\ pc = "yielded"
    /\ pc' = "closed"
    /\ written' = on_close(written)
    /\ UNCHANGED <<heard, sessVars, fcall, opVars, retryVars, reads, ncalls, outcome, caller_start, start_date,
                   stop_date, header, page_i, slot_j, finish, not_in_range, r_index, item, archives,
                   dates, result, seen>>

\* lines 255-263: ESC or ACK after the page
PostPage ==
    /\ pc = "post"
    /\ LET d == post_page(finish, not_in_range)
       IN  IF d = "UnboundLocalError"
           THEN /\ written' = written
                /\ outcome' = Raise(d)
                /\ pc' = "done"
                /\ page_i' = page_i
           ELSE /\ written' = LinkWrite(written, encode(IF d = "ESC" THEN ESC ELSE ACK))
                /\ outcome' = outcome
                /\ pc' = after_control(d)
                /\ page_i' = IF d = "ESC" THEN page_i ELSE page_i + 1
    /\ UNCHANGED <<heard, sessVars, fcall, opVars, retryVars, reads, ncalls, caller_start, start_date, stop_date, header,
                   slot_j, finish, not_in_range, r_index, item, archives, dates, result, seen>>

\* get_archives line 190: the generator is exhausted; sorted_by is a
\* coroutine function and its call is not awaited
Return ==
    /\ pc = "end"
    /\ result' = [kind |-> "coroutine", val |-> sorted_by(archives)]
    /\ outcome' = Value("coroutine", Len(archives))
    /\ pc' = "done"
    /\ UNCHANGED <<heard, sessVars, fcall, opVars, retryVars, linkVars, ncalls, caller_start, start_date, stop_date, header,
                   page_i, slot_j, finish, not_in_range, r_index, item, archives, dates, seen>>

NextDump ==
    \/ SendStart
    \/ ReadHeader
    \/ LoopPage
    \/ read_dump_page
    \/ PageRead
    \/ Slot
    \/ Consume
    \/ Abandon
    \/ PostPage
    \/ Return

SpecDump == InitDump /\ [][NextDump]_vars

----------------------------------------------------------------------------
\* C1: a retried operation (wake_up, send, read_from_eeprom, _read_dump_page)
\* whose attempts all fail is attempted exactly 4 times and raises the error
\* of its 4th attempt: no raise before 4 attempts, no 5th attempt.
C1_RetryBound ==
    /\ attempts <= 4
    /\ Len(excs) = 4 => ret.kind = "raise"
    /\ ret.kind = "raise" => attempts = 4 /\ Len(excs) = 4 /\ ret.val = excs[4]
    /\ outcome.kind = "raise" => attempts = 4 /\ outcome.val = excs[4]

\* read_from_eeprom gave up after BadAck, BadCRC, BadCRC, BadAck
C1_Witness ==
    /\ call.name = "read_from_eeprom"
    /\ outcome = Raise("BadAck")
    /\ excs = <<"BadAck", "BadCRC", "BadCRC", "BadAck">>

\* C2: an operation that fails on its first k attempts, 1 <= k <= 3, and
\* succeeds on attempt k+1 hands the caller the successful result; none of
\* NoDevice, BadAck, BadCRC, BadData is surfaced.
C2_TransparentRetry ==
    /\ (Len(excs) \in 1..3 /\ attempts = Len(excs) + 1) => ret.kind = "value"
    /\ Len(excs) \in 1..3 => ret.kind # "raise" /\ outcome.kind # "raise"
    /\ (pc = "idle" /\ ret.kind = "value") => outcome = ret

\* wake_up succeeded on its 4th attempt and the caller got True
C2_Witness ==
    /\ call.name = "wake_up"
    /\ excs = <<"NoDevice", "NoDevice", "NoDevice">>
    /\ attempts = 4
    /\ pc = "idle"
    /\ outcome = Value("True", 0)

----------------------------------------------------------------------------
\* The dump retrieval (SpecDump).

Count(x) == CopiesIn(encode(x), written)

Stopped == pc \in {"end", "done"}

C5_SentinelStops ==
    seen.term.kind = "sentinel" =>
        /\ pc \in {"post", "end", "done"}
        /\ page_i = seen.term.page /\ slot_j = seen.term.slot
        /\ seen.examined = SlotsPerPage * seen.term.page + seen.term.slot + 1
        /\ seen.emitted = seen.inrange
        /\ seen.pages_ok = seen.term.page + 1
        /\ Count(ACK) = seen.term.page + 1
        /\ Count(ESC) = IF Stopped THEN 1 ELSE 0

\* the third slot of page 1 is erased, two records were emitted before it,
\* and the header declared two pages
C5_Witness ==
    /\ seen.term = [kind |-> "sentinel", page |-> 0, slot |-> 2, emitted |-> 2]
    /\ header.Pages = 2
    /\ pc = "done"
    /\ seen.emitted = 2

\* C6: once a slot with a timestamp after stop is examined, no record of
\* that slot, of a later slot or of a later page is emitted; ESC is written
\* after that page and no further page is requested.
C6_PastStopStops ==
    seen.term.kind = "past_stop" =>
        /\ seen.emitted = seen.term.emitted
        /\ pc \in {"post", "end", "done"}
        /\ page_i = seen.term.page /\ slot_j = seen.term.slot
        /\ seen.pages_ok = seen.term.page + 1
        /\ Count(ACK) = seen.term.page + 1
        /\ Count(ESC) = IF Stopped THEN 1 ELSE 0

\* a slot after stop in page 1, after one emitted record, two pages declared
C6_Witness ==
    /\ seen.term.kind = "past_stop"
    /\ seen.term.page = 0
    /\ seen.term.emitted = 1
    /\ header.Pages = 2
    /\ pc = "done"

\* C7: after a page without terminal slot, ESC is written and no further
\* page is read if and only if the last examined slot was at or before the
\* (rounded) start; otherwise ACK is written and the next page is taken up.
C7_PostPageDecision ==
    [][ /\ (pc = "post" /\ ~finish) =>
             IF DtLE(seen.last, start_date)
             THEN written' = LinkWrite(written, encode(ESC)) /\ pc' = "end"
             ELSE /\ written' = LinkWrite(written, encode(ACK))
                  /\ pc' = "page"
                  /\ page_i' = page_i + 1
        /\ Stopped => reads' = reads /\ written' = written
      ]_vars

\* a page of five slots at or before start cancels a dump of two pages
C7_Witness ==
    /\ pc = "end"
    /\ ~finish
    /\ seen.examined = SlotsPerPage
    /\ seen.emitted = 0
    /\ page_i = 0
    /\ header.Pages = 2
    /\ Count(ESC) = 1

\* C8: a page read that fails on all 4 attempts ends the generator
\* normally: no error reaches the consumer, no further page is read,
\* neither ESC nor ACK is written for that page, and what was emitted before
\* stays delivered.
C8_PageFailureEndsDump ==
    (call.name = "_read_dump_page" /\ ret.kind = "raise") =>
        /\ pc \in {"reading", "end", "done"}
        /\ outcome.kind # "raise"
        /\ attempts = 4
        /\ Count(ESC) = 0
        /\ Count(ACK) = page_i + 1
        /\ seen.pages_ok = page_i
        /\ CopiesIn(PageLen, reads) = Count(NACK) + seen.pages_ok
        /\ seen.emitted = seen.inrange
        /\ pc = "done" => {result.val[k] : k \in 1..Len(result.val)} = seen.first

\* the second page fails with bad lengths and a bad CRC after page 1 gave records
C8_Witness ==
    /\ pc = "done"
    /\ ret = Raise("BadCRC")
    /\ excs = <<"BadData", "BadCRC", "BadData", "BadCRC">>
    /\ page_i = 1
    /\ seen.emitted >= 1
    /\ Len(result.val) >= 1

C10_HeaderCrc ==
    header.len = HeaderLen =>
        IF ~check(header)
        THEN /\ pc = "done"
             /\ outcome = Raise("BadCRC")
             /\ Count(CANCEL) = 1
             /\ Count(ACK) = 0
             /\ CopiesIn(PageLen, reads) = 0
        ELSE /\ Count(CANCEL) = 0
             /\ Count(ACK) = page_i + 1
             /\ outcome # Raise("BadCRC")

\* a header with a bad CRC was answered with the cancel byte
C10_Witness ==
    /\ header.len = HeaderLen
    /\ ~check(header)
    /\ header.Pages = 2
    /\ Count(CANCEL) = 1
    /\ pc = "done"

----------------------------------------------------------------------------
\* C11: the records the generator emits are a subsequence, in the order of
\* delivery (page order, then slot order), of the slots of the pages read
\* successfully; at most 5 x (page count of the header) records are emitted
\* and no more pages are read successfully than the header declares.
C11_EmittedSubsequence ==
    /\ [](/\ seen.pages_ok <= header.Pages
          /\ seen.examined <= SlotsPerPage * seen.pages_ok
          /\ seen.emitted <= seen.examined
          /\ seen.emitted <= SlotsPerPage * header.Pages
          /\ seen.pos <= seen.examined
          /\ Len(archives) <= seen.emitted)
    /\ [][seen'.emitted # seen.emitted =>
            /\ seen'.emitted = seen.emitted + 1
            /\ seen'.examined = seen.examined + 1
            /\ seen'.pos = seen'.examined
            /\ seen'.pos > seen.pos
            /\ item'.Datetime = seen'.last]_vars

\* every slot of a two-page dump was emitted
C11_Witness ==
    /\ Stopped
    /\ header.Pages = 2
    /\ seen.pages_ok = 2
    /\ seen.emitted = SlotsPerPage * header.Pages
    /\ seen.pos = seen.examined

----------------------------------------------------------------------------
\* The retried link operations (Spec), C12 - C14.

\* the operation in progress is the first of the session: the link's
\* history is its own
FirstCall(name) == call.name = name /\ ncalls = 1 /\ pc \in {"await", "idle"}

\* C12: every attempt of wake_up writes one LF and reads exactly 2 bytes; it
\* succeeds, with no further read, iff those bytes are "\n\r"; on a mismatch
\* it reads exactly one more byte and fails with NoDevice; a wake_up that
\* gave up has written 4 LFs and surfaces NoDevice.
C12_WakeUpAttempts ==
    FirstCall("wake_up") =>
        /\ Count(WAKE_STR) = attempts
        /\ CopiesIn(PyLen(WAKE_ACK), reads) = attempts
        /\ attempts > 0 => (ret.kind = "value" <=> heard = encode(WAKE_ACK))
        /\ CopiesIn(1, reads) = Len(excs)
        /\ \A k \in 1..Len(excs) : excs[k] = "NoDevice"
        /\ ret.kind = "raise" => Count(WAKE_STR) = 4 /\ ret.val = "NoDevice"

\* C13: send with no expected acknowledgement succeeds right after its
\* write, reading nothing; with one, every attempt reads exactly
\* len(wait_ack) bytes and succeeds iff the bytes read are those of wait_ack,
\* byte for byte (send with the ACK constant succeeds when the console
\* answers 0x06), and fails with BadAck otherwise.
C13_SendAck ==
    (FirstCall("send") /\ attempts > 0) =>
        IF call.wait_ack = PyNone
        THEN ret.kind = "value" /\ attempts = 1 /\ reads = EmptyBag
        ELSE /\ CopiesIn(PyLen(call.wait_ack), reads) = attempts
             /\ ret.kind = "value" <=> heard.v = call.wait_ack.v
             /\ \A k \in 1..Len(excs) : excs[k] = "BadAck"

\* occurrences of e in the sequence s
RECURSIVE Occurs(_, _)
Occurs(e, s) == IF s = <<>> THEN 0 ELSE (IF Head(s) = e THEN 1 ELSE 0) + Occurs(e, Tail(s))

\* C14: read_from_eeprom reads the 1-byte acknowledgement; a mismatch fails
\* as BadAck and no payload is read; on ACK it reads size + 2 bytes and
\* returns a value only when their CRC16 is valid, the value being the
\* payload of exactly size bytes (the 2 CRC bytes stripped); a CRC failure
\* fails as BadCRC.
C14_EepromRead ==
    (FirstCall("read_from_eeprom") /\ attempts > 0) =>
        /\ CopiesIn(PyLen(ACK), reads) = attempts
        /\ \A k \in 1..Len(excs) : excs[k] \in {"BadAck", "BadCRC"}
        /\ heard # encode(ACK) => ret.kind # "value" /\ excs[Len(excs)] = "BadAck"
        /\ CopiesIn(call.size + 2, reads) = attempts - Occurs("BadAck", excs)
        /\ ret.kind = "value" => ret.n = call.size

----------------------------------------------------------------------------
\* The functions of parser.py, each applied to an argument drawn from a
\* bounded set (SpecParser).

\* longest bytes object a checksum is taken of
MaxCrcLen == 3

\* byte values of those objects
CrcBytes == {0, 1, 6, 33, 128, 255}

ByteSeqs == UNION {[1..n -> CrcBytes] : n \in 0..MaxCrcLen}

Apply(fn, arg) == [fn |-> fn, arg |-> arg, done |-> FALSE, out |-> <<>>]

Applying(fn) == fcall.fn = fn /\ ~fcall.done

Applied(fn) == fcall.fn = fn /\ fcall.done

Result(out) == fcall' = [fcall EXCEPT !.done = TRUE, !.out = out]

sessionVars ==
    <<pc, call, fails, attempts, excs, ret, slept, written, reads, ncalls, outcome,
      caller_start, start_date, stop_date, header, page_i, slot_j, finish,
      not_in_range, r_index, item, archives, dates, result, seen, heard, RevA, RevB,
      archive_period, op, tasks, properties>>

\* VantageProCRC(data): check(), data_with_checksum and the check() of the
\* object made of data_with_checksum
VantageProCRC ==
    /\ Applying("VantageProCRC")
    /\ Result([check |-> check(Frame(fcall.arg)),
               data_with_checksum |-> data_with_checksum(fcall.arg),
               check_with_checksum |-> check(Frame(data_with_checksum(fcall.arg)))])
    /\ UNCHANGED sessionVars

\* DateStamp words: erased, zero, 2008-05-01, February 31st, February 29th of
\* a leap year and of a common year, 2127-12-31, month 13
DateWords ==
    {65535, 0, 1 + 5 * 32 + 8 * 512, 31 + 2 * 32 + 8 * 512, 29 + 2 * 32 + 8 * 512,
     29 + 2 * 32 + 9 * 512, 31 + 12 * 32 + 127 * 512, 1 + 13 * 32}

\* TimeStamp words: erased, 00:00, 06:00, 23:59, minute 60, hour 24, minute 99
TimeWords == {65535, 0, 600, 2359, 2360, 2400, 99}

\* unpack_dmp_date_time(date, time)
apply_unpack_dmp_date_time ==
    /\ Applying("unpack_dmp_date_time")
    /\ Result(unpack_dmp_date_time(fcall.arg[1], fcall.arg[2]))
    /\ UNCHANGED sessionVars

\* datetimes given to pack_dmp_date_time: the calendar dates among these
PackDates ==
    {datetime(y, m, d, h, mi) : y \in {2000, 2008, 2100, 2127}, m \in {1, 2, 12},
                                d \in {1, 28, 29, 31}, h \in {0, 23}, mi \in {0, 59}}
        \ {ValueErrorDt}

\* pack_dmp_date_time(d), its DateStamp and TimeStamp words, and
\* unpack_dmp_date_time of those words
apply_pack_dmp_date_time ==
    /\ Applying("pack_dmp_date_time")
    /\ LET data == pack_dmp_date_time(fcall.arg).v
           date == unpack_H(data[1], data[2])
           time == unpack_H(data[3], data[4])
       IN  Result([data |-> data, date |-> date, time |-> time,
                   unpacked |-> unpack_dmp_date_time(date, time)])
    /\ UNCHANGED sessionVars

\* format(byte_val, "08b"): the 8 binary digits, most significant first
format_08b(byte_val) == [k \in 1..8 |-> (byte_val \div (2 ^ (8 - k))) % 2]

\* utils.bytes_to_binary: the digits of each byte, joined
RECURSIVE bytes_to_binary(_)
bytes_to_binary(values) ==
    IF values = <<>> THEN <<>> ELSE format_08b(Head(values)) \o bytes_to_binary(Tail(values))

\* LoopDataParserRevB.__init__, inside alarms: the flags are the characters
\* 0..6 of bytes_to_binary(raw_bytes[70:71]); alarm is that byte
LoopDataParserRevB ==
    /\ Applying("LoopDataParserRevB")
    /\ LET AlarmIn == bytes_to_binary(<<fcall.arg>>)
       IN  Result([AlarmInFallBarTrend |-> AlarmIn[0 + 1],
                   AlarmInRisBarTrend |-> AlarmIn[1 + 1],
                   AlarmInLowTemp |-> AlarmIn[2 + 1],
                   AlarmInHighTemp |-> AlarmIn[3 + 1],
                   AlarmInLowHum |-> AlarmIn[4 + 1],
                   AlarmInHighHum |-> AlarmIn[5 + 1],
                   AlarmInTime |-> AlarmIn[6 + 1]])
    /\ UNCHANGED sessionVars

\* struct.unpack("nB", field): the n byte values of a raw field
unpack_B(field) == field

\* tuple((t - 90) for t in values)
minus_90(values) == [k \in DOMAIN values |-> values[k] - 90]

ExtraTemps_raw(field) == unpack_B(field)

\* ArchiveDataParserRevB.__init__, the fields that are byte arrays
SoilTemps(field) == minus_90(unpack_B(field))

LeafTemps(field) == minus_90(unpack_B(field))

ExtraTemps(field) == minus_90(unpack_B(field))

ExtraHum(field) == unpack_B(field)

SoilMoist(field) == unpack_B(field)

LeafWetness(field) == unpack_B(field)

\* the n bytes t, t + 1, ... (mod 256) of a raw field
RawField(t, n) == [k \in 1..n |-> (t + k - 1) % 256]

\* the byte-array fields of a slot, by ARCHIVE_FORMAT
ArchiveSlots ==
    {[LeafTemps |-> RawField(t, 2), LeafWetness |-> RawField(t, 2),
      SoilTemps |-> RawField(t, 4), ExtraHum |-> RawField(t, 2),
      ExtraTemps |-> RawField(t, 3), SoilMoist |-> RawField(t, 4)] : t \in 0..255}

\* ArchiveDataParserRevB.__init__ on the byte-array fields; tuple_to_dict
\* names element i of a tuple "<key>%.2d" % i, kept here as out.key[i]
ArchiveFields ==
    /\ Applying("ArchiveDataParserRevB")
    /\ Result([SoilTemps |-> SoilTemps(fcall.arg.SoilTemps),
               ExtraHum |-> ExtraHum(fcall.arg.ExtraHum),
               SoilMoist |-> SoilMoist(fcall.arg.SoilMoist),
               LeafTemps |-> LeafTemps(fcall.arg.LeafTemps),
               LeafWetness |-> LeafWetness(fcall.arg.LeafWetness),
               ExtraTemps |-> ExtraTemps(fcall.arg.ExtraTemps)])
    /\ UNCHANGED sessionVars

\* the record shapes of parser.py: byte width of the format and whether it
\* has a CRC field (dump header, real-time snapshot, dump page, archive slot)
Shapes ==
    {[width |-> 6, crc |-> TRUE], [width |-> 99, crc |-> TRUE], [width |-> 267, crc |-> TRUE],
     [width |-> 52, crc |-> FALSE]}

Zeros(n) == [k \in 1..n |-> 0]

\* a frame of the shape: b, zeros and their checksum ("intact"), the same
\* with one bit of b changed ("flipped"), with one more byte after the
\* checksum ("longer"), and without its last byte ("short")
FrameOf(shape, b, kind, extra) ==
    LET intact == data_with_checksum(<<b>> \o Zeros(shape.width - 3))
    IN  IF kind = "intact" THEN intact
        ELSE IF kind = "flipped" THEN [intact EXCEPT ![1] = Xor(b, 1)]
        ELSE IF kind = "longer" THEN intact \o <<extra>>
        ELSE SubSeq(intact, 1, shape.width - 1)

ShapedFrames ==
    {[width |-> sh.width, crc |-> sh.crc, kind |-> k, data |-> FrameOf(sh, b, k, x)] :
        sh \in Shapes, b \in {0, 1, 255}, k \in {"intact", "flipped", "longer", "short"},
        x \in {0, 7}}

DataParser_declared(data, width, has_crc) ==
    LET declared == IF Len(data) < width THEN data ELSE SubSeq(data, 1, width)
        crc_err == IF has_crc THEN crc_error(Frame(declared)) ELSE FALSE
    IN  IF Len(data) < width
        THEN [error |-> TRUE, crc_error |-> crc_err, fields |-> <<>>]
        ELSE [error |-> FALSE, crc_error |-> crc_err, fields |-> SubSeq(data, 1, width)]

\* DataParser.__init__: crc_error when the format has a CRC field, then
\* struct.unpack_from(raw_bytes, 0), which raises struct.error on a buffer
\* shorter than the format and reads the first width bytes otherwise
DataParser(data, width, has_crc) ==
    LET crc_err == IF has_crc THEN crc_error(Frame(data)) ELSE FALSE
    IN  IF Len(data) < width
        THEN [error |-> TRUE, crc_error |-> crc_err, fields |-> <<>>]
        ELSE [error |-> FALSE, crc_error |-> crc_err, fields |-> SubSeq(data, 1, width)]

apply_DataParser ==
    /\ Applying("DataParser")
    /\ Result(DataParser(fcall.arg.data, fcall.arg.width, fcall.arg.crc))
    /\ UNCHANGED sessionVars

Applications ==
    {Apply("VantageProCRC", b) : b \in ByteSeqs}
        \cup {Apply("DataParser", f) : f \in ShapedFrames}
        \cup {Apply("ArchiveDataParserRevB", r) : r \in ArchiveSlots}
        \cup {Apply("LoopDataParserRevB", v) : v \in 0..255}
        \cup {Apply("pack_dmp_date_time", d) : d \in PackDates}
        \cup {Apply("unpack_dmp_date_time", <<d, t>>) : d \in DateWords, t \in TimeWords}

InitParser ==
    /\ pc = "idle"
    /\ call = NoCall
    /\ fails = 0
    /\ attempts = 0
    /\ excs = <<>>
    /\ ret = Pending
    /\ slept = 0
    /\ written = EmptyBag
    /\ reads = EmptyBag
    /\ ncalls = 0
    /\ outcome = Pending
    /\ caller_start = NoneDt
    /\ start_date = NoneDt
    /\ stop_date = NoneDt
    /\ DumpLocals0
    /\ heard = PyNone
    /\ Session0
    /\ Ops0
    /\ fcall \in Applications

NextParser ==
    \/ VantageProCRC
    \/ apply_unpack_dmp_date_time
    \/ apply_pack_dmp_date_time
    \/ LoopDataParserRevB
    \/ ArchiveFields
    \/ apply_DataParser

SpecParser == InitParser /\ [][NextParser]_vars

\* C15: for every non-empty bytes object b, check() of b followed by its
\* checksum (data_with_checksum) is true; check() of the empty object is
\* false.
C15_CrcRoundTrip ==
    Applied("VantageProCRC") =>
        IF fcall.arg # <<>> THEN fcall.out.check_with_checksum ELSE ~fcall.out.check

\* a three-byte object and its non-zero checksum pass the check
C15_Witness ==
    /\ Applied("VantageProCRC")
    /\ fcall.arg = <<1, 255, 6>>
    /\ fcall.out.data_with_checksum # fcall.arg \o <<0, 0>>
    /\ fcall.out.check_with_checksum
    /\ ~fcall.out.check

C17_DmpDateRoundTrip ==
    Applied("pack_dmp_date_time") =>
        /\ \A k \in 1..Len(fcall.out.data) : fcall.out.data[k] \in 0..255
        /\ fcall.out.date \in 0..65535
        /\ fcall.out.time \in 0..65535
        /\ fcall.out.unpacked = fcall.arg

\* the last minute of 2127 packs to 0xFF9F, 2359 and comes back
C17_Witness ==
    /\ Applied("pack_dmp_date_time")
    /\ fcall.arg = [year |-> 2127, month |-> 12, day |-> 31, hour |-> 23, minute |-> 59]
    /\ fcall.out.date = 65439
    /\ fcall.out.time = 2359
    /\ Len(fcall.out.data) = 6
    /\ fcall.out.unpacked = fcall.arg

\* bit n of the byte v, bit 0 the least significant
Bit(v, n) == (v \div (2 ^ n)) % 2

\* C18: for every inside-alarm byte v in 0..255 each AlarmIn flag is the bit
\* of v at its documented position, bit 0 being the least significant (bit 0
\* AlarmInFallBarTrend, bit 2 AlarmInLowTemp, ...); v = 5 decodes to
\* AlarmInLowTemp = 1, AlarmInFallBarTrend = 1 and every other flag 0.
C18_AlarmInBits ==
    Applied("LoopDataParserRevB") =>
        /\ fcall.out.AlarmInFallBarTrend = Bit(fcall.arg, 0)
        /\ fcall.out.AlarmInRisBarTrend = Bit(fcall.arg, 1)
        /\ fcall.out.AlarmInLowTemp = Bit(fcall.arg, 2)
        /\ fcall.out.AlarmInHighTemp = Bit(fcall.arg, 3)
        /\ fcall.out.AlarmInLowHum = Bit(fcall.arg, 4)
        /\ fcall.out.AlarmInHighHum = Bit(fcall.arg, 5)
        /\ fcall.out.AlarmInTime = Bit(fcall.arg, 6)
        /\ fcall.arg = 5 =>
              fcall.out = [AlarmInFallBarTrend |-> 1, AlarmInRisBarTrend |-> 0,
                           AlarmInLowTemp |-> 1, AlarmInHighTemp |-> 0,
                           AlarmInLowHum |-> 0, AlarmInHighHum |-> 0, AlarmInTime |-> 0]

\* every per-index field of out.key is the raw byte plus offset
Offset(key_out, key_raw, offset) ==
    /\ DOMAIN key_out = DOMAIN key_raw
    /\ \A i \in DOMAIN key_raw : key_out[i] = key_raw[i] + offset

\* C19 as stated: in a decoded archive record the per-index soil-temperature
\* and leaf-temperature fields are the raw byte minus 90, and the per-index
\* extra-humidity, extra-temperature, soil-moisture and leaf-wetness fields
\* are the raw byte unchanged.
C19_OnlySoilLeafOffset ==
    Applied("ArchiveDataParserRevB") =>
        /\ Offset(fcall.out.SoilTemps, fcall.arg.SoilTemps, -90)
        /\ Offset(fcall.out.LeafTemps, fcall.arg.LeafTemps, -90)
        /\ Offset(fcall.out.ExtraHum, fcall.arg.ExtraHum, 0)
        /\ Offset(fcall.out.ExtraTemps, fcall.arg.ExtraTemps, 0)
        /\ Offset(fcall.out.SoilMoist, fcall.arg.SoilMoist, 0)
        /\ Offset(fcall.out.LeafWetness, fcall.arg.LeafWetness, 0)

\* C19: in a decoded archive record the per-index soil-temperature,
\* leaf-temperature and extra-temperature fields are the raw byte minus 90;
\* the per-index extra-humidity, soil-moisture and leaf-wetness fields are
\* the raw byte unchanged.
C19_TemperatureOffsets ==
    Applied("ArchiveDataParserRevB") =>
        /\ Offset(fcall.out.SoilTemps, fcall.arg.SoilTemps, -90)
        /\ Offset(fcall.out.LeafTemps, fcall.arg.LeafTemps, -90)
        /\ Offset(fcall.out.ExtraTemps, fcall.arg.ExtraTemps, -90)
        /\ Offset(fcall.out.ExtraHum, fcall.arg.ExtraHum, 0)
        /\ Offset(fcall.out.SoilMoist, fcall.arg.SoilMoist, 0)
        /\ Offset(fcall.out.LeafWetness, fcall.arg.LeafWetness, 0)

\* raw bytes 255, 0, 1 of the extra temperatures decode to 165, -90, -89
C19_Witness ==
    /\ Applied("ArchiveDataParserRevB")
    /\ fcall.arg.ExtraTemps = <<255, 0, 1>>
    /\ fcall.out.ExtraTemps = <<165, -90, -89>>
    /\ fcall.out.ExtraHum = <<255, 0>>
    /\ fcall.out.SoilTemps = <<165, -90, -89, -88>>

----------------------------------------------------------------------------
\* C20: in every state of a session, after construction and at every
\* suspension point and outcome of every operation, _check_revision
\* included, exactly one of RevA and RevB is true.
C20_ExactlyOneRevision == RevA # RevB

----------------------------------------------------------------------------
\* The public operations of a session, started one after the other
\* (SpecOps): each awaits the retried operations wake_up, send and
\* read_from_eeprom and reads the link itself.

GETTIME == Str(<<71, 69, 84, 84, 73, 77, 69>>)

SETTIME == Str(<<83, 69, 84, 84, 73, 77, 69>>)

LOOP1 == Str(<<76, 79, 79, 80, 32, 49>>)

NVER == Str(<<78, 86, 69, 82>>)

RXCHECK == Str(<<82, 88, 67, 72, 69, 67, 75>>)

\* the command of archive_period as written: EEBRD 2D 01 and LF
EEBRD_2D == encode(WithLF(Str(EEBRD \o <<50, 68>> \o SizeText(1))))

\* the command of timezone as written: EEBRD 14 03 and LF
EEBRD_14 == encode(WithLF(Str(EEBRD \o <<49, 52>> \o SizeText(3))))

\* the ASCII commands of the session, as written: command and LF
AsciiCommands ==
    {encode(WithLF(c)) : c \in {GETTIME, SETTIME, LOOP1, DMPAFT, VER, NVER, RXCHECK}}
        \cup {EEBRD_2D, EEBRD_14}

\* archive intervals the EEPROM byte 0x2D may hold
PeriodBytes == {0, 1, 2, 255}

\* the start_date a caller of get_archives passes
OpStarts == {Minute(1), Minute(3)}

\* what the 8-byte read of gettime returns: its length, and whether the six
\* fields are a calendar date and a time of day
ClockFrames == {[len |-> l, cal |-> c] : l \in {0, 5, 6, 7, 8}, c \in BOOLEAN}

WakeUpCall == [NoCall EXCEPT !.name = "wake_up"]

SendCall(data, wait_ack) == [name |-> "send", data |-> data, wait_ack |-> wait_ack, size |-> 0]

EepromCall(hex_address, size) ==
    [name |-> "read_from_eeprom", data |-> hex_address, wait_ack |-> PyNone, size |-> size]

callVars == <<call, fails, attempts, excs, ret, heard>>

\* what no public operation changes
opsFrame0 ==
    <<slept, stop_date, header, page_i, slot_j, finish, not_in_range, r_index, item, archives,
      dates, result, seen, sessVars, fcall, tasks>>

\* ... nor one that is no cached property
opsFrame == <<opsFrame0, properties>>

StartCall(c) ==
    /\ call' = c
    /\ fails' = 0
    /\ attempts' = 0
    /\ excs' = <<>>
    /\ ret' = Pending
    /\ heard' = PyNone

\* the operation goes on with the retried call c
Go(to, c, op2) ==
    /\ pc' = to
    /\ StartCall(c)
    /\ op' = op2
    /\ outcome' = outcome

\* the operation ends with the outcome o; the frames of its calls are gone
End(o, op2) ==
    /\ pc' = "idle"
    /\ StartCall(NoCall)
    /\ op' = op2
    /\ outcome' = o

\* the operation has no start_date
NoStart ==
    /\ caller_start' = NoneDt
    /\ start_date' = NoneDt

\* a public operation is called: await self.wake_up()
Enter(name) ==
    /\ pc = "idle"
    /\ ncalls < MaxCalls
    /\ ncalls' = ncalls + 1
    /\ pc' = name
    /\ StartCall(WakeUpCall)
    /\ op' = [NoOp EXCEPT !.name = name]
    /\ outcome' = Pending

\* wake_up is over; await self.send(data, wait_ack)
Woken(name, data, wait_ack) ==
    /\ pc = name
    /\ op.name = name
    /\ call.name = "wake_up"
    /\ ret # Pending
    /\ IF ret.kind = "raise"
       THEN End(ret, op)
       ELSE Go(name, SendCall(data, wait_ack), [op EXCEPT !.woken = TRUE])

\* send is over
Sent(name) ==
    /\ pc = name
    /\ op.name = name
    /\ call.name = "send"
    /\ ret # Pending

\* gettime, lines 147-154
gettime ==
    \/ /\ Enter("gettime")
       /\ NoStart /\ UNCHANGED <<written, reads, archive_period, opsFrame>>
    \/ /\ Woken("gettime", GETTIME, ACK)
       /\ UNCHANGED <<written, reads, ncalls, caller_start, start_date, archive_period, opsFrame>>
    \/ /\ Sent("gettime")
       /\ IF ret.kind = "raise"
          THEN End(ret, op) /\ reads' = reads
          ELSE /\ reads' = LinkRead(reads, 8)
               /\ \E data \in ClockFrames :
                     End(IF data.len < 6 THEN Raise("struct.error")
                         ELSE IF ~data.cal THEN Raise("ValueError")
                         ELSE Value("datetime", data.len),
                         [op EXCEPT !.short = data.len < 8])
       /\ UNCHANGED <<written, ncalls, caller_start, start_date, archive_period, opsFrame>>

\* settime, lines 156-161; the 8 bytes of pack_datetime(dtime) are kept as zeros
settime ==
    \/ /\ Enter("settime")
       /\ NoStart /\ UNCHANGED <<written, reads, archive_period, opsFrame>>
    \/ /\ Woken("settime", SETTIME, ACK)
       /\ UNCHANGED <<written, reads, ncalls, caller_start, start_date, archive_period, opsFrame>>
    \/ /\ Sent("settime")
       /\ IF ret.kind = "raise"
          THEN End(ret, op)
          ELSE IF call.data = SETTIME
               THEN Go("settime", SendCall(Bytes(<<0, 0, 0, 0, 0, 0, 0, 0>>), ACK), op)
               ELSE End(Value("None", 0), op)
       /\ UNCHANGED <<written, reads, ncalls, caller_start, start_date, archive_period, opsFrame>>

\* get_current_data, lines 163-173
get_current_data ==
    \/ /\ Enter("get_current_data")
       /\ NoStart /\ UNCHANGED <<written, reads, archive_period, opsFrame>>
    \/ /\ Woken("get_current_data", LOOP1, ACK)
       /\ UNCHANGED <<written, reads, ncalls, caller_start, start_date, archive_period, opsFrame>>
    \/ /\ Sent("get_current_data")
       /\ IF ret.kind = "raise"
          THEN End(ret, op) /\ reads' = reads
          ELSE /\ reads' = LinkRead(reads, 99)
               /\ \E current_data \in Frames(99) :
                     End(IF ~RevB THEN Raise("NotImplementedError")
                         ELSE IF current_data.len < 99 THEN Raise("struct.error")
                         ELSE Value("LoopDataParserRevB", current_data.len),
                         [op EXCEPT !.short = current_data.len < 99])
       /\ UNCHANGED <<written, ncalls, caller_start, start_date, archive_period, opsFrame>>

cached_never(cache, value) == [cache EXCEPT !.loads = @ + 1]

\* async_cached_property: the value a getter returned is kept; loads counts
\* the runs of the getter that are over
cached(cache, value) == [set |-> TRUE, val |-> value, loads |-> cache.loads + 1]

\* async_cached_property: a getter that raised leaves the cache as it was
uncached(cache) == [cache EXCEPT !.loads = @ + 1]

\* what the run of a getter that ended with o leaves in the cache
Store(cache, o) == IF o.kind = "value" THEN cached(cache, o.n) ELSE uncached(cache)

\* a cached property is awaited: its value if there is one, else the getter
\* runs and begins with the retried call c
Access(name, cache, kind, c) ==
    /\ pc = "idle"
    /\ ncalls < MaxCalls
    /\ ncalls' = ncalls + 1
    /\ op' = [NoOp EXCEPT !.name = name]
    /\ NoStart
    /\ IF cache.set
       THEN /\ pc' = "idle"
            /\ StartCall(NoCall)
            /\ outcome' = Value(kind, cache.val)
       ELSE /\ pc' = name
            /\ StartCall(c)
            /\ outcome' = Pending

\* firmware_version, lines 290-297
firmware_version ==
    \/ /\ Access("firmware_version", properties.firmware_version, "str", WakeUpCall)
       /\ UNCHANGED <<written, reads, archive_period, opsFrame>>
    \/ /\ Woken("firmware_version", NVER, OK)
       /\ properties' = IF ret.kind = "raise"
                        THEN [properties EXCEPT !.firmware_version = uncached(@)]
                        ELSE properties
       /\ UNCHANGED <<written, reads, ncalls, caller_start, start_date, archive_period, opsFrame0>>
    \/ /\ Sent("firmware_version")
       /\ IF ret.kind = "raise"
          THEN /\ End(ret, op)
               /\ reads' = reads
               /\ properties' = [properties EXCEPT !.firmware_version = uncached(@)]
          ELSE /\ reads' = LinkRead(reads, 6)
               /\ \E n \in {0, 5, 6}, utf8 \in BOOLEAN :
                     LET o == IF utf8 THEN Value("str", n) ELSE Raise("UnicodeDecodeError")
                     IN  /\ End(o, [op EXCEPT !.short = n < 6])
                         /\ properties' = [properties EXCEPT !.firmware_version = Store(@, o)]
       /\ UNCHANGED <<written, ncalls, caller_start, start_date, archive_period, opsFrame0>>

\* diagnostics, lines 299-313
diagnostics ==
    \/ /\ Access("diagnostics", properties.diagnostics, "dict", WakeUpCall)
       /\ UNCHANGED <<written, reads, archive_period, opsFrame>>
    \/ /\ Woken("diagnostics", RXCHECK, OK)
       /\ properties' = IF ret.kind = "raise"
                        THEN [properties EXCEPT !.diagnostics = uncached(@)]
                        ELSE properties
       /\ UNCHANGED <<written, reads, ncalls, caller_start, start_date, archive_period, opsFrame0>>
    \/ /\ Sent("diagnostics")
       /\ IF ret.kind = "raise"
          THEN /\ End(ret, op)
               /\ reads' = reads
               /\ properties' = [properties EXCEPT !.diagnostics = uncached(@)]
          ELSE /\ reads' = LinkRead(reads, 4048)
               /\ \E n \in {0, 4, 5, 4048} :
                     LET o == IF n < 5 THEN Raise("IndexError") ELSE Value("dict", n)
                     IN  /\ End(o, [op EXCEPT !.short = n < 4048])
                         /\ properties' = [properties EXCEPT !.diagnostics = Store(@, o)]
       /\ UNCHANGED <<written, ncalls, caller_start, start_date, archive_period, opsFrame0>>

\* timezone, lines 271-279: struct.unpack(b"HB", data) of the payload of
\* ret.n bytes; gmt is its third byte
timezone ==
    \/ /\ Access("timezone", properties.timezone, "str", EepromCall(Str(<<49, 52>>), 3))
       /\ UNCHANGED <<written, reads, archive_period, opsFrame>>
    \/ /\ pc = "timezone"
       /\ ret # Pending
       /\ \E gmt \in {0, 1} :
             LET o == IF ret.kind = "raise" THEN ret
                      ELSE IF ret.n # 3 THEN Raise("struct.error")
                      ELSE Value("str", gmt)
             IN  /\ End(o, [op EXCEPT !.short = ret.kind = "value" /\ ret.n < 3])
                 /\ properties' = [properties EXCEPT !.timezone = Store(@, o)]
       /\ UNCHANGED <<written, reads, ncalls, caller_start, start_date, archive_period, opsFrame0>>

\* archive_period lines 265-269, the getter once read_from_eeprom is over:
\* struct.unpack(b"B", data)[0] of the payload of ret.n bytes
LoadPeriod(period) ==
    IF ret.kind = "raise" THEN ret
    ELSE IF ret.n # 1 THEN Raise("struct.error")
    ELSE Value("int", period)

\* the property archive_period, awaited by a caller of the session
archive_period_get ==
    \/ /\ Access("archive_period", archive_period, "int", EepromCall(Str(<<50, 68>>), 1))
       /\ UNCHANGED <<written, reads, archive_period, opsFrame>>
    \/ /\ pc = "archive_period"
       /\ ret # Pending
       /\ \E period \in PeriodBytes :
             LET loaded == LoadPeriod(period)
             IN  /\ End(loaded, [op EXCEPT !.period = IF loaded.kind = "value" THEN period ELSE @,
                                           !.short = ret.kind = "value" /\ ret.n < 1])
                 /\ archive_period' = Store(archive_period, loaded)
       /\ UNCHANGED <<written, reads, ncalls, caller_start, start_date, opsFrame>>

\* lines 199-203: minutes = start_date.minute % period; start_date -= minutes;
\* await self.send("DMPAFT", self.ACK)
Round(period) ==
    IF period = 0
    THEN /\ End(Raise("ZeroDivisionError"), [op EXCEPT !.period = period, !.woken = TRUE])
         /\ start_date' = start_date
    ELSE /\ Go("get_archives:send", SendCall(DMPAFT, ACK),
                [op EXCEPT !.period = period, !.woken = TRUE])
         /\ start_date' = round_start(caller_start, period)

\* get_archives / _get_archives_generator, lines 195-205
get_archives ==
    \/ /\ Enter("get_archives")
       /\ \E s \in OpStarts : caller_start' = s
       /\ start_date' = NoneDt
       /\ UNCHANGED <<written, reads, archive_period, opsFrame>>
    \/ /\ pc = "get_archives"
       /\ call.name = "wake_up"
       /\ ret # Pending
       /\ IF ret.kind = "raise"
          THEN End(ret, op) /\ start_date' = start_date
          ELSE IF archive_period.set
               THEN Round(archive_period.val)
               ELSE /\ Go("get_archives:period", EepromCall(Str(<<50, 68>>), 1),
                          [op EXCEPT !.woken = TRUE])
                    /\ start_date' = start_date
       /\ UNCHANGED <<written, reads, ncalls, caller_start, archive_period, opsFrame>>
    \/ /\ pc = "get_archives:period"
       /\ ret # Pending
       /\ \E period \in PeriodBytes :
             LET loaded == LoadPeriod(period)
             IN  IF loaded.kind = "raise"
                 THEN /\ End(loaded, [op EXCEPT !.short = ret.kind = "value" /\ ret.n < 1])
                      /\ start_date' = start_date
                      /\ archive_period' = uncached(archive_period)
                 ELSE /\ archive_period' = cached(archive_period, period)
                      /\ Round(period)
       /\ UNCHANGED <<written, reads, ncalls, caller_start, opsFrame>>
    \/ /\ pc = "get_archives:send"
       /\ ret # Pending
       /\ IF ret.kind = "raise"
          THEN End(ret, op) /\ written' = written
          ELSE /\ written' = LinkWrite(written, pack_dmp_date_time(start_date))
               /\ pc' = "date"
               /\ UNCHANGED <<callVars, op, outcome>>
       /\ UNCHANGED <<reads, ncalls, caller_start, start_date, archive_period, opsFrame>>

InitOps ==
    /\ pc = "idle"
    /\ call = NoCall
    /\ fails = 0
    /\ attempts = 0
    /\ excs = <<>>
    /\ ret = Pending
    /\ slept = 0
    /\ written = EmptyBag
    /\ reads = EmptyBag
    /\ ncalls = 0
    /\ outcome = Pending
    /\ caller_start = NoneDt
    /\ start_date = NoneDt
    /\ stop_date = NoneDt
    /\ DumpLocals0
    /\ heard = PyNone
    /\ Session0
    /\ Ops0
    /\ fcall = NoApply

NextOps ==
    \/ gettime
    \/ settime
    \/ get_current_data
    \/ firmware_version
    \/ diagnostics
    \/ timezone
    \/ archive_period_get
    \/ get_archives
    \/ wake_up
    \/ send
    \/ read_from_eeprom

SpecOps == InitOps /\ [][NextOps]_vars

\* C23: for every record shape with a CRC field (real-time snapshot, dump
\* header, dump page) and every frame at least as long as the shape's width,
\* the frame is decoded and crc_error is the negation of the CRC16 check over
\* the entire frame, trailing checksum bytes included: false for a payload
\* followed by its checksum, true once a bit of it is changed, and the
\* frame with the bad CRC is decoded all the same.
C23_CrcErrorOfWholeFrame ==
    (Applied("DataParser") /\ fcall.arg.crc /\ Len(fcall.arg.data) >= fcall.arg.width) =>
        /\ ~fcall.out.error
        /\ fcall.out.crc_error = (checksum(fcall.arg.data) # 0)
        /\ fcall.out.fields = SubSeq(fcall.arg.data, 1, fcall.arg.width)
        /\ fcall.arg.kind = "intact" => ~fcall.out.crc_error
        /\ fcall.arg.kind = "flipped" => fcall.out.crc_error

\* a dump page with one bit changed is decoded and flagged
C23_Witness ==
    /\ Applied("DataParser")
    /\ fcall.arg.width = 267
    /\ fcall.arg.kind = "flipped"
    /\ Len(fcall.arg.data) = 267
    /\ fcall.out.crc_error
    /\ ~fcall.out.error
    /\ fcall.out.fields[1] = 254

----------------------------------------------------------------------------
\* Two get_current_data calls started concurrently on one session
\* (SpecTasks).  A step of a task runs from one await of the link to the
\* next: the event loop may switch tasks at each write_async and read_async.

TaskIds == {1, 2}

\* the last three link events
Recent(log) == IF Len(log) > 3 THEN SubSeq(log, Len(log) - 2, Len(log)) ELSE log

Event(t, o, what) == [task |-> t, op |-> o, what |-> what]

may_run_locked(t, pcs) == \A u \in TaskIds \ {t} : pcs[u] \in {"wake:write", "raised", "returned"}

\* VantagePro2 holds no lock: a task that is ready runs whatever the
\* position of the other one
may_run(t, pcs) == TRUE

Move(t, to, f, ev) ==
    tasks' = [pc |-> [tasks.pc EXCEPT ![t] = to],
              fails |-> [tasks.fails EXCEPT ![t] = f],
              log |-> Recent(Append(tasks.log, ev))]

\* aioretry: the attempt of task t raised; again is where its next attempt begins
Fail(t, again, ev) ==
    IF retry_policy(tasks.fails[t] + 1)
    THEN Move(t, "raised", tasks.fails[t] + 1, ev)
    ELSE Move(t, again, tasks.fails[t] + 1, ev)

\* get_current_data lines 164-173 with wake_up (96-107) and send (110-130),
\* one await of the link at a time
Step(t) ==
    /\ tasks.pc[t] \notin {"raised", "returned"}
    /\ may_run(t, tasks.pc)
    /\ IF tasks.pc[t] = "wake:write"
       THEN /\ written' = LinkWrite(written, encode(WAKE_STR))
            /\ reads' = reads
            /\ Move(t, "wake:read", tasks.fails[t], Event(t, "write", "wake"))
       ELSE IF tasks.pc[t] = "wake:read"
       THEN /\ written' = written
            /\ reads' = LinkRead(reads, PyLen(WAKE_ACK))
            /\ \E ack \in WakeReplies :
                  IF ~decodable(ack)
                  THEN Fail(t, "wake:write", Event(t, "read", "wake_ack"))
                  ELSE IF PyEq(WAKE_ACK, decode(ack))
                       THEN Move(t, "send:write", 0, Event(t, "read", "wake_ack"))
                       ELSE Move(t, "wake:shift", tasks.fails[t], Event(t, "read", "wake_ack"))
       ELSE IF tasks.pc[t] = "wake:shift"
       THEN /\ written' = written
            /\ reads' = LinkRead(reads, 1)
            /\ Fail(t, "wake:write", Event(t, "read", "shift"))
       ELSE IF tasks.pc[t] = "send:write"
       THEN /\ written' = LinkWrite(written, encode(WithLF(LOOP1)))
            /\ reads' = reads
            /\ Move(t, "send:read", tasks.fails[t], Event(t, "write", "command"))
       ELSE IF tasks.pc[t] = "send:read"
       THEN /\ written' = written
            /\ reads' = LinkRead(reads, PyLen(ACK))
            /\ \E ack \in RepliesTo(ACK) :
                  IF PyEq(ACK, ack)
                  THEN Move(t, "data:read", 0, Event(t, "read", "ack"))
                  ELSE Fail(t, "send:write", Event(t, "read", "ack"))
       ELSE /\ written' = written
            /\ reads' = LinkRead(reads, 99)
            /\ Move(t, "returned", 0, Event(t, "read", "data"))
    /\ UNCHANGED <<pc, callVars, slept, ncalls, outcome, dumpVars, sessVars, fcall, archive_period,
                   op, properties>>

InitTasks ==
    /\ pc = "idle"
    /\ call = NoCall
    /\ fails = 0
    /\ attempts = 0
    /\ excs = <<>>
    /\ ret = Pending
    /\ slept = 0
    /\ written = EmptyBag
    /\ reads = EmptyBag
    /\ ncalls = 0
    /\ outcome = Pending
    /\ caller_start = NoneDt
    /\ start_date = NoneDt
    /\ stop_date = NoneDt
    /\ DumpLocals0
    /\ heard = PyNone
    /\ Session0
    /\ archive_period = NoCache
    /\ op = NoOp
    /\ properties = [timezone |-> NoCache, firmware_version |-> NoCache, diagnostics |-> NoCache]
    /\ tasks = [pc |-> [t \in TaskIds |-> "wake:write"], fails |-> [t \in TaskIds |-> 0],
                log |-> <<>>]
    /\ fcall = NoApply

NextTasks == \E t \in TaskIds : Step(t)

SpecTasks == InitTasks /\ [][NextTasks]_vars

\* C26: the session has no internal locking: of two get_current_data calls
\* started concurrently, each one that is not over can take its next step
\* on the link wherever the other one stands, between the other's command
\* write and its acknowledgement read included.
C26_NoLocking ==
    \A t \in TaskIds : tasks.pc[t] \notin {"raised", "returned"} => ENABLED Step(t)

\* task 2 wrote to the link between the command write of task 1 and the
\* acknowledgement read of task 1
C26_Witness ==
    /\ Len(tasks.log) = 3
    /\ tasks.log[1] = Event(1, "write", "command")
    /\ tasks.log[2].task = 2
    /\ tasks.log[2].op = "write"
    /\ tasks.log[3] = Event(1, "read", "ack")

----------------------------------------------------------------------------
\* Claims on the end of a page of the dump.

\* C25: when the consumer stops consuming the generator after a record was
\* emitted and before the slots of the current page are finished, no ESC and
\* no ACK is written for that page: the link has the ACK of the header and
\* one ACK per page finished before, the close writes and reads nothing,
\* and the generator does nothing afterwards.
C25_NoControlByteOnAbandon ==
    /\ [](pc = "closed" =>
            /\ Count(ESC) = 0
            /\ Count(CANCEL) = 0
            /\ Count(ACK) = 1 + page_i
            /\ slot_j < SlotsPerPage)
    /\ [][pc' = "closed" => written' = written /\ reads' = reads]_vars
    /\ [][pc # "closed"]_vars

\* the generator is closed on the first record of the second page
C25_Witness ==
    /\ pc = "closed"
    /\ page_i = 1
    /\ slot_j = 0
    /\ item # NoItem
    /\ Count(ACK) = 2
    /\ Count(ESC) = 0

\* C28: after each page that was read and whose slot loop ran to its end or
\* broke, exactly one control byte is written, ACK or ESC and never both;
\* once ESC is written the generator reads and writes nothing more.
C28_OneControlBytePerPage ==
    /\ [](/\ Count(ESC) <= 1
          /\ pc \in {"page", "reading", "slot", "yielded", "post"} =>
                Count(ESC) = 0 /\ Count(ACK) = 1 + page_i
          /\ Count(ESC) = 1 =>
                /\ Count(ACK) = 1 + page_i
                /\ seen.pages_ok = page_i + 1
                /\ pc \in {"end", "done"})
    /\ [][pc = "post" =>
            /\ BagCardinality(written') = BagCardinality(written) + 1
            /\ (CopiesIn(encode(ESC), written') = Count(ESC) + 1)
                  # (CopiesIn(encode(ACK), written') = Count(ACK) + 1)
            /\ reads' = reads]_vars
    /\ [][Count(ESC) >= 1 => written' = written /\ reads' = reads]_vars

\* the first page was answered with ACK, the second with ESC, and the
\* retrieval is over
C28_Witness ==
    /\ pc = "done"
    /\ page_i = 1
    /\ seen.pages_ok = 2
    /\ Count(ACK) = 2
    /\ Count(ESC) = 1

\* C30: whenever the decision after a page reads not_in_range, the flag was
\* assigned while the last slot of the current page was examined, to what
\* that slot says: it is never read unassigned and never carries the value
\* of an earlier page.
C30_FlagOfCurrentPage ==
    /\ (pc = "post" /\ ~finish) =>
          /\ not_in_range \in {"True", "False"}
          /\ seen.nir_at = DeliveryIndex(page_i, SlotsPerPage - 1)
          /\ not_in_range = (IF InRange(seen.last) THEN "False" ELSE "True")
    /\ outcome # Raise("UnboundLocalError")

\* the decision after the second page reads the flag its last slot set
C30_Witness ==
    /\ pc = "post"
    /\ ~finish
    /\ page_i = 1
    /\ not_in_range = "True"
    /\ seen.nir_at = 2 * SlotsPerPage

----------------------------------------------------------------------------
\* Claims on the dump-page read.

\* C29: every failed attempt of the dump-page read writes exactly one NACK
\* before it raises and a successful attempt writes nothing; each attempt
\* reads one page, and a read that gave up has read 4 pages and written 4
\* NACKs.
C29_NackPerFailure ==
    FirstCall("_read_dump_page") =>
        /\ Count(NACK) = Len(excs)
        /\ BagCardinality(written) = Len(excs)
        /\ CopiesIn(PageLen, reads) = attempts
        /\ BagCardinality(reads) = attempts
        /\ ret.kind = "value" => Len(excs) = attempts - 1
        /\ ret.kind = "raise" => attempts = 4 /\ Count(NACK) = 4

\* a dump-page read that gave up
C29_Witness ==
    /\ FirstCall("_read_dump_page")
    /\ ret.kind = "raise"
    /\ Count(NACK) = 4
    /\ CopiesIn(PageLen, reads) = 4

----------------------------------------------------------------------------
\* Claims on the public operations.

\* C21 as stated: the archive interval is read from the EEPROM once; after
\* the first access of archive_period is over, no later operation writes
\* another EEBRD command for it.
C21_ReadOnce ==
    [][archive_period.loads >= 1 => CopiesIn(EEBRD_2D, written') = CopiesIn(EEBRD_2D, written)]_vars

\* C21: once an access of archive_period has returned a value, the cache
\* keeps that value, every later dump retrieval rounds its start with it,
\* and no later operation writes another EEBRD command for it.
C21_CachedOnceLoaded ==
    /\ [](pc = "get_archives:send" =>
            /\ archive_period.set
            /\ op.period = archive_period.val
            /\ start_date = round_start(caller_start, archive_period.val))
    /\ [][archive_period.set =>
            /\ archive_period'.set
            /\ archive_period'.val = archive_period.val
            /\ CopiesIn(EEBRD_2D, written') = CopiesIn(EEBRD_2D, written)]_vars

\* a second operation, a dump retrieval, uses the value the first one loaded
C21_Witness ==
    /\ pc = "get_archives:send"
    /\ ncalls = 2
    /\ archive_period.loads = 1
    /\ archive_period.set
    /\ op.woken

\* C22: in every protocol operation a read that returns fewer bytes than
\* were asked for leads to an error outcome, never to a returned value:
\* wake_up and send do not succeed on a short answer, read_from_eeprom
\* returns a payload only of the size asked for, and a public operation
\* whose own read came back short returns nothing.
C22_ShortReadIsError ==
    /\ (call.name = "wake_up" /\ attempts > 0 /\ PyLen(heard) < PyLen(WAKE_ACK)) =>
          ret.kind # "value"
    /\ (call.name = "send" /\ attempts > 0 /\ call.wait_ack # PyNone
            /\ PyLen(heard) < PyLen(call.wait_ack)) => ret.kind # "value"
    /\ (call.name = "read_from_eeprom" /\ ret.kind = "value") => ret.n >= call.size
    /\ op.short => outcome.kind # "value"

\* C24: for every start and every archive interval of one EEPROM byte
\* (0-255), the dump retrieval computes the rounded start as start minus
\* (start.minute mod interval) minutes, never later than start and with a
\* minute that is a multiple of the interval, and the date-time written
\* after DMPAFT is the packed encoding of that rounded start.
C24_RoundedStart ==
    /\ (op.name = "get_archives" /\ pc = "idle") => outcome # Raise("ZeroDivisionError")
    /\ pc \in {"get_archives:send", "date"} =>
          /\ start_date = round_start(caller_start, op.period)
          /\ start_date.minute % op.period = 0
          /\ DtLE(start_date, caller_start)
    /\ pc = "date" => CopiesIn(pack_dmp_date_time(start_date), written) >= 1

\* C27: every public operation that writes an ASCII command (GETTIME,
\* SETTIME, LOOP 1, DMPAFT, EEBRD, VER, NVER, RXCHECK) has completed a
\* successful wake_up within the same call before the command is written.
C27_WakeUpBeforeCommand ==
    [][\A c \in AsciiCommands : CopiesIn(c, written') > CopiesIn(c, written) => op.woken]_vars

====
